---- MODULE Spec2Model ----
(***************************************************************************)
(* Model of lib/ansible/modules/system/aix_lvol.py.                        *)
(*                                                                         *)
(* One run of main() is a reconciliation pass: it runs lsvg, then lslv,    *)
(* then at most one of mklv / rmlv / chlv / extendlv, and ends through     *)
(* exit_json, fail_json, an uncaught Python exception, or by returning     *)
(* from main() without reporting.  The AIX volume manager the commands     *)
(* talk to is the variable sys; the answers of lsvg and lslv are text      *)
(* (sequences of lines) that parse_vg and parse_lv scan.                   *)
(*                                                                         *)
(* get_bin_path(required=True) is taken to find every binary.              *)
(***************************************************************************)
EXTENDS Integers, Sequences, FiniteSets, TLC

VARIABLES
    params,     \* module.params: vg, size, policy, state, shrink; and check_mode
    pyver,      \* major version of the interpreter running the module (2 or 3)
    sys,        \* the volume manager: requested volume group and the logical volume
    pc,         \* position of main(): the command it is about to run, or "done"
    this_vg,    \* main's local this_vg  (parse_vg result)
    lv_size,    \* main's local lv_size  (normalised requested size, MB)
    this_lv,    \* main's local this_lv  (parse_lv result)
    rc,         \* main's local rc: exit code of the last run_command
    lv_info,    \* main's local lv_info: what lslv printed
    cmds,       \* the commands run_command has been given in this pass
    result,     \* how the pass ended
    hist,       \* summaries of the passes completed so far, oldest first
    trusted     \* every query so far answered what sys holds

vars == <<params, pyver, sys, pc, this_vg, lv_size, this_lv, rc, lv_info, cmds, result,
          hist, trusted>>

(***************************************************************************)
(* Bounds of the model.                                                    *)
(***************************************************************************)
MaxPasses == 3      \* passes run one after another
MaxLps == 2         \* logical partitions of a volume that exists initially
MaxFreePPs == 2     \* free physical partitions of the group initially
MaxMB == 40         \* requested megabytes tried on round_ppsize
MaxPP == 16         \* partition sizes tried on round_ppsize

(***************************************************************************)
(* Domains.                                                                *)
(***************************************************************************)
VGs == {"vg1", "vg2"}
Policies == {"maximum", "minimum"}
PPSizes == {4, 16}
LvName == "lv1"

\* The size parameter.  text = FALSE is None.  Otherwise the string is
\* <digits><unit>: num is the integer the leading part reads as, or NotInt
\* when int() rejects it; unit is the last character, or "" for the empty string.
NotInt == -1
Unbound == -1
SizeNone == [text |-> FALSE, num |-> 0, unit |-> ""]
SizeStr(n, u) == [text |-> TRUE, num |-> n, unit |-> u]
Sizes == { SizeNone,
           SizeStr(0, ""),          \* ""
           SizeStr(NotInt, "M"),    \* "xM"
           SizeStr(5, "K"),         \* "5K"
           SizeStr(0, "M"),         \* "0M"
           SizeStr(5, "m"),         \* "5m"
           SizeStr(8, "M"),         \* "8M"
           SizeStr(1, "G") }        \* "1G"

\* Python truth value of the size parameter: None and "" are false.
NotSize(size) == ~size.text \/ size.unit = ""

(***************************************************************************)
(* convert_size                                                            *)
(***************************************************************************)
Upper(c) == CASE c = "m" -> "M" [] c = "g" -> "G" [] c = "t" -> "T"
              [] c = "k" -> "K" [] OTHER -> c

units == <<"M", "G", "T">>

Pow1024(n) == CASE n = 0 -> 1 [] n = 1 -> 1024 [] OTHER -> 1024 * 1024

\* kind: "ok" (value returned), "fail" (fail_json), "crash" (IndexError on
\* size[-1] of "", ValueError of int()).
convert_size(size) ==
    IF size.unit = "" THEN [kind |-> "crash", value |-> 0]
    ELSE LET unit == Upper(size.unit)
             idx == { i \in 1..Len(units) : units[i] = unit }
         IN IF idx = {} THEN [kind |-> "fail", value |-> 0]
            ELSE IF size.num = NotInt THEN [kind |-> "crash", value |-> 0]
            ELSE [kind |-> "ok",
                  value |-> size.num * Pow1024((CHOOSE i \in idx : TRUE) - 1)]

(***************************************************************************)
(* round_ppsize                                                            *)
(***************************************************************************)
\* round(float(x) / base): nearest integer; a tie goes to the even
\* neighbour under Python 3 and away from zero under Python 2.
PyRound(x, base, py) ==
    LET q == x \div base
        r == x % base
    IN IF 2 * r < base THEN q
       ELSE IF 2 * r > base THEN q + 1
       ELSE IF py = 2 THEN q + 1
       ELSE IF q % 2 = 0 THEN q ELSE q + 1

round_ppsize_nofix(x, base, py) == base * PyRound(x, base, py)

round_ppsize(x, base, py) ==
    LET new_size == base * PyRound(x, base, py)
    IN IF new_size < x THEN new_size + base ELSE new_size

(***************************************************************************)
(* Command output.  A line carries the label the regular expressions of    *)
(* parse_vg / parse_lv look for and the groups they capture.               *)
(***************************************************************************)
Line(label, word, word2, num) ==
    [label |-> label, word |-> word, word2 |-> word2, num |-> num]

\* lsvg <vg>:  VOLUME GROUP: <name> ...
\*             ... PP SIZE: <n> megabyte(s)
\*             ... TOTAL PPs: <k> (<n> megabytes)
\*             ... FREE PPs: <k> (<n> megabytes)
LsvgText(s, vg) ==
    << Line("VOLUME GROUP", vg, "", 0),
       Line("PP SIZE", "", "", s.pp_size),
       Line("TOTAL PPs", "", "", s.total),
       Line("FREE PPs", "", "", s.free) >>

\* lslv <lv>:  LOGICAL VOLUME: <name>  VOLUME GROUP: <vg>
\*             MAX LPs: 512  PP SIZE: <n> megabyte(s)   (no "PPs" after "LPs:")
\*             LPs: <n>  PPs: <n>
\*             INTER-POLICY: <policy> ...
LslvText(s) ==
    << Line("LOGICAL VOLUME", LvName, s.lv_vg, 0),
       Line("PP SIZE", "", "", s.lv_pp),
       Line("LPs", "", "", s.lv_lps),
       Line("INTER-POLICY", s.lv_policy, "", 0) >>

(***************************************************************************)
(* parse_vg, parse_lv                                                      *)
(***************************************************************************)
\* Locals of a parser that no line has assigned yet are unbound (has_x = FALSE);
\* reading one raises UnboundLocalError.
RECURSIVE ScanVg(_, _)
ScanVg(data, acc) ==
    IF data = <<>> THEN acc
    ELSE LET l == Head(data)
             nxt == CASE l.label = "VOLUME GROUP" ->
                            [acc EXCEPT !.has_name = TRUE, !.name = l.word]
                      [] l.label = "TOTAL PPs" ->
                            [acc EXCEPT !.has_size = TRUE, !.size = l.num]
                      [] l.label = "PP SIZE" ->
                            [acc EXCEPT !.has_pp = TRUE, !.pp_size = l.num]
                      [] l.label = "FREE PPs" ->
                            [acc EXCEPT !.has_free = TRUE, !.free = l.num]
                      [] OTHER -> acc
         IN ScanVg(Tail(data), nxt)

NoVg == [kind |-> "unbound", name |-> "", size |-> 0, free |-> 0, pp_size |-> 0]

parse_vg(data) ==
    LET a == ScanVg(data, [has_name |-> FALSE, name |-> "", has_size |-> FALSE, size |-> 0,
                           has_pp |-> FALSE, pp_size |-> 0, has_free |-> FALSE, free |-> 0])
    IN IF a.has_name /\ a.has_size /\ a.has_free /\ a.has_pp
       THEN [kind |-> "dict", name |-> a.name, size |-> a.size, free |-> a.free,
             pp_size |-> a.pp_size]
       ELSE [NoVg EXCEPT !.kind = "crash"]

RECURSIVE ScanLv(_, _)
ScanLv(data, acc) ==
    IF data = <<>> THEN acc
    ELSE LET l == Head(data)
             nxt == CASE l.label = "LOGICAL VOLUME" ->
                            [acc EXCEPT !.has_name = TRUE, !.name = l.word, !.vg = l.word2]
                      [] l.label = "LPs" ->
                            [acc EXCEPT !.has_lps = TRUE, !.lps = l.num]
                      [] l.label = "PP SIZE" ->
                            [acc EXCEPT !.has_pp = TRUE, !.pp_size = l.num]
                      [] l.label = "INTER-POLICY" ->
                            [acc EXCEPT !.has_policy = TRUE, !.policy = l.word]
                      [] OTHER -> acc
         IN ScanLv(Tail(data), nxt)

NoLv == [kind |-> "unbound", name |-> "", vg |-> "", size |-> 0, policy |-> ""]

\* kind: "None" (no name found), "dict", or "crash" (UnboundLocalError).
parse_lv(data) ==
    LET a == ScanLv(data, [has_name |-> FALSE, name |-> "", vg |-> "", has_lps |-> FALSE,
                           lps |-> 0, has_pp |-> FALSE, pp_size |-> 0,
                           has_policy |-> FALSE, policy |-> ""])
    IN IF ~a.has_name THEN [NoLv EXCEPT !.kind = "None"]
       ELSE IF ~(a.has_lps /\ a.has_pp /\ a.has_policy) THEN [NoLv EXCEPT !.kind = "crash"]
       ELSE [kind |-> "dict", name |-> a.name, vg |-> a.vg, size |-> a.lps * a.pp_size,
             policy |-> a.policy]

(***************************************************************************)
(* The volume manager behind the commands.                                 *)
(*   name, vg_exists, pp_size, total, free : the group called params.vg    *)
(*   lv_exists, lv_vg, lv_pp, lv_lps, lv_policy : the volume called lv     *)
(***************************************************************************)
Cmd(bin, opt, e, vg, mb) == [bin |-> bin, test_opt |-> opt, e |-> e, vg |-> vg, mb |-> mb]

Mutating == {"mklv", "rmlv", "chlv", "extendlv"}

CeilDiv(a, b) == (a + b - 1) \div b

PolicyOfFlag(e) == IF e = "x" THEN "maximum" ELSE "minimum"

\* Space of the requested group a command takes (MB).
Needs(s, c) ==
    CASE c.bin = "mklv" -> CeilDiv(c.mb, s.pp_size) * s.pp_size
      [] c.bin = "extendlv" ->
            IF s.lv_vg = s.name THEN CeilDiv(c.mb, s.lv_pp) * s.lv_pp ELSE 0
      [] OTHER -> 0

\* Whether the volume manager can carry the command out (exit code 0).
CanSucceed(s, c) ==
    CASE c.bin = "mklv" -> s.vg_exists /\ c.vg = s.name /\ ~s.lv_exists /\ Needs(s, c) <= s.free
      [] c.bin = "extendlv" -> s.lv_exists /\ Needs(s, c) <= s.free
      [] OTHER -> s.lv_exists

\* The volume manager after the command succeeded.
Apply(s, c) ==
    CASE c.bin = "mklv" ->
            [s EXCEPT !.lv_exists = TRUE, !.lv_vg = c.vg, !.lv_pp = s.pp_size,
                      !.lv_lps = CeilDiv(c.mb, s.pp_size),
                      !.lv_policy = PolicyOfFlag(c.e), !.free = @ - Needs(s, c)]
      [] c.bin = "rmlv" ->
            [s EXCEPT !.lv_exists = FALSE, !.lv_vg = "", !.lv_pp = 0, !.lv_lps = 0,
                      !.lv_policy = "",
                      !.free = IF s.lv_vg = s.name THEN @ + s.lv_lps * s.lv_pp ELSE @]
      [] c.bin = "chlv" -> [s EXCEPT !.lv_policy = PolicyOfFlag(c.e)]
      [] c.bin = "extendlv" ->
            [s EXCEPT !.lv_lps = @ + CeilDiv(c.mb, s.lv_pp), !.free = @ - Needs(s, c)]
      [] OTHER -> s

\* What run_command can return for a query of an object: the true answer
\* (exit 0 and the full text when it exists, non-zero and nothing when not),
\* or a failed or cut-off one.
Answer(code, out, faithful) == [rc |-> code, out |-> out, faithful |-> faithful]

LsvgAnswers(s) ==
    IF s.vg_exists
    THEN { Answer(0, LsvgText(s, s.name), TRUE),
           Answer(0, SubSeq(LsvgText(s, s.name), 1, 2), FALSE),
           Answer(1, <<>>, FALSE) }
    ELSE { Answer(1, <<>>, TRUE), Answer(0, <<>>, FALSE) }

LslvAnswers(s) ==
    IF s.lv_exists
    THEN { Answer(0, LslvText(s), TRUE), Answer(1, LslvText(s), FALSE),
           Answer(0, SubSeq(LslvText(s), 1, 1), FALSE),
           Answer(0, <<>>, FALSE), Answer(1, <<>>, FALSE) }
    ELSE { Answer(1, <<>>, TRUE), Answer(0, <<>>, FALSE) }

(***************************************************************************)
(* main                                                                    *)
(***************************************************************************)
Running == [kind |-> "running", changed |-> FALSE, msg |-> ""]
Exit(changed, msg) == [kind |-> "exit", changed |-> changed, msg |-> msg]   \* exit_json
Fail(msg) == [kind |-> "fail", changed |-> FALSE, msg |-> msg]              \* fail_json
Crash == [kind |-> "crash", changed |-> FALSE, msg |-> ""]       \* uncaught exception
Return == [kind |-> "return", changed |-> FALSE, msg |-> ""]     \* main() returned

\* Lines 252-255.
lv_policy_swapped(policy) == IF policy = "maximum" THEN "m" ELSE "x"

lv_policy(policy) == IF policy = "maximum" THEN "x" ELSE "m"

test_opt(check_mode) == IF check_mode THEN "echo " ELSE ""

\* Lines 270-280: what follows the answer of lsvg.
AfterLsvg(p, py, code, out) ==
    IF code # 0
    THEN [res |-> IF p.state = "absent" THEN Exit(FALSE, "Volume group does not exist.")
                  ELSE Fail("Volume group does not exist."),
          this_vg |-> NoVg, lv_size |-> Unbound]
    ELSE LET v == parse_vg(out)
             cs == convert_size(p.size)
         IN IF v.kind = "crash" THEN [res |-> Crash, this_vg |-> NoVg, lv_size |-> Unbound]
            ELSE IF ~p.size.text THEN [res |-> Running, this_vg |-> v, lv_size |-> Unbound]
            ELSE IF cs.kind = "crash" THEN [res |-> Crash, this_vg |-> v, lv_size |-> Unbound]
            ELSE IF cs.kind = "fail"
                 THEN [res |-> Fail("No valid size unit specified."), this_vg |-> v,
                       lv_size |-> Unbound]
            ELSE [res |-> Running, this_vg |-> v,
                  lv_size |-> round_ppsize(cs.value, v.pp_size, py)]

\* Line 347.
ShrinkRefused_always(shrink, size, cur) == size < cur

ShrinkRefused(shrink, size, cur) == shrink /\ size < cur

\* Line 300.
NoSpace_never(size, free) == FALSE

NoSpace(size, free) == size > free

\* Lines 294-350 up to the next run_command: the result when the pass ends
\* here, else the command to run next.
Go(bin) == [res |-> Running, next |-> bin]
End(res) == [res |-> res, next |-> "done"]

\* Lines 294-295.
NoSizeGiven_never(p, lv) == FALSE

NoSizeGiven(p, lv) == p.state = "present" /\ NotSize(p.size) /\ lv.kind = "None"

\* Line 322.
PolicyDiffers_never(p, lv) == FALSE

PolicyDiffers(p, lv) == lv.policy # p.policy

\* Line 331.
WrongGroup_never(p, lv) == FALSE

WrongGroup(p, lv) == p.vg # lv.vg

Decide(p, vg, size, lv) ==
    IF NoSizeGiven(p, lv) THEN End(Fail("No size given."))
    ELSE IF lv.kind = "None"
    THEN IF p.state = "present"
         THEN IF NoSpace(size, vg.free)
              THEN End(Fail("Not enough free space in volume group"))
              ELSE Go("mklv")
         ELSE End(Return)
    ELSE IF p.state = "absent" THEN Go("rmlv")
    ELSE IF PolicyDiffers(p, lv) THEN Go("chlv")
    ELSE IF WrongGroup(p, lv) THEN End(Fail("Logical volume already exist in volume group"))
    ELSE IF NotSize(p.size) THEN End(Exit(FALSE, "Logical volume already exist."))
    ELSE IF size > lv.size THEN Go("extendlv")
    ELSE IF ShrinkRefused(p.shrink, size, lv.size)
         THEN End(Fail("No shrinking of Logical Volume permitted."))
    ELSE End(Exit(FALSE, "Logical volume size is already or higher."))

\* Lines 286-292, then Decide.
AfterLslv(p, vg, size, code, out) ==
    IF code # 0 /\ p.state = "absent"
    THEN [res |-> Exit(FALSE, "Logical Volume does not exist."), next |-> "done",
          this_lv |-> NoLv]
    ELSE LET lv == parse_lv(out)
         IN IF lv.kind = "crash" THEN [res |-> Crash, next |-> "done", this_lv |-> NoLv]
            ELSE LET d == Decide(p, vg, size, lv)
                 IN [res |-> d.res, next |-> d.next, this_lv |-> lv]

\* Lines 308-311, 317-320, 326-329, 343-346: the report after a mutating command.
Report_ignorerc(code, done, failed) == Exit(TRUE, done)

Report(code, done, failed) == IF code = 0 THEN Exit(TRUE, done) ELSE Fail(failed)

\* The command line main builds for each mutating command.
CmdLine(bin) ==
    CASE bin = "mklv" ->
            Cmd("mklv", test_opt(params.check_mode), lv_policy(params.policy), params.vg, lv_size)
      [] bin = "rmlv" -> Cmd("rmlv", test_opt(params.check_mode), "", "", 0)
      [] bin = "chlv" ->
            Cmd("chlv", test_opt(params.check_mode), lv_policy(params.policy), "", 0)
      [] OTHER ->
            Cmd("extendlv", test_opt(params.check_mode), "", "", lv_size - this_lv.size)

\* One entry of hist: how the pass ended and which mutating command it ran.
Summary(res, cs) ==
    [kind |-> res.kind, changed |-> res.changed,
     bins |-> [i \in 1..Len(cs) |-> cs[i].bin]]

Finish(res, cs) ==
    /\ pc' = "done"
    /\ result' = res
    /\ cmds' = cs
    /\ hist' = Append(hist, Summary(res, cs))

(***************************************************************************)
(* Initial states: main() has read its parameters and resolved lsvg and    *)
(* lslv (lines 223-265) and is about to run lsvg.                          *)
(***************************************************************************)
Params == [vg : VGs, size : Sizes, policy : Policies, state : {"present", "absent"},
           shrink : BOOLEAN, check_mode : BOOLEAN]

NoGroup(vg) == [name |-> vg, vg_exists |-> FALSE, pp_size |-> 0, total |-> 0, free |-> 0]

Groups(vg) == {NoGroup(vg)} \cup
    { [name |-> vg, vg_exists |-> TRUE, pp_size |-> pp, total |-> pp * (MaxFreePPs + MaxLps),
       free |-> pp * k] : pp \in PPSizes, k \in 0..MaxFreePPs }

NoVolume == [lv_exists |-> FALSE, lv_vg |-> "", lv_pp |-> 0, lv_lps |-> 0, lv_policy |-> ""]

\* A volume of the requested group has the group's partition size.
Volumes(g) == {NoVolume} \cup
    { [lv_exists |-> TRUE, lv_vg |-> v, lv_pp |-> pp, lv_lps |-> n, lv_policy |-> pol] :
        v \in (IF g.vg_exists THEN VGs ELSE VGs \ {g.name}),
        pp \in PPSizes, n \in 1..MaxLps, pol \in Policies }

Systems(vg) ==
    UNION { { g @@ v : v \in { w \in Volumes(g) : w.lv_vg = g.name => w.lv_pp = g.pp_size } } :
            g \in Groups(vg) }

Init ==
    /\ params \in Params
    /\ pyver \in {2, 3}
    /\ sys \in Systems(params.vg)
    /\ pc = "lsvg"
    /\ this_vg = NoVg
    /\ lv_size = Unbound
    /\ this_lv = NoLv
    /\ rc = Unbound
    /\ lv_info = <<>>
    /\ cmds = <<>>
    /\ result = Running
    /\ hist = <<>>
    /\ trusted = TRUE

(***************************************************************************)
(* Actions.                                                                *)
(***************************************************************************)
\* Lines 268-280.
Lsvg ==
    /\ pc = "lsvg"
    /\ \E a \in LsvgAnswers(sys) :
         LET r == AfterLsvg(params, pyver, a.rc, a.out)
             cs == Append(cmds, Cmd("lsvg", "", "", params.vg, 0))
         IN /\ rc' = a.rc
            /\ this_vg' = r.this_vg
            /\ lv_size' = r.lv_size
            /\ trusted' = (trusted /\ a.faithful)
            /\ IF r.res.kind = "running"
               THEN pc' = "lslv" /\ cmds' = cs /\ UNCHANGED <<result, hist>>
               ELSE Finish(r.res, cs)
    /\ UNCHANGED <<params, pyver, sys, this_lv, lv_info>>

\* Lines 283-350, up to the mutating command.
Lslv ==
    /\ pc = "lslv"
    /\ \E a \in LslvAnswers(sys) :
         LET r == AfterLslv(params, this_vg, lv_size, a.rc, a.out)
             cs == Append(cmds, Cmd("lslv", "", "", "", 0))
         IN /\ rc' = a.rc
            /\ lv_info' = a.out
            /\ this_lv' = r.this_lv
            /\ trusted' = (trusted /\ a.faithful)
            /\ IF r.res.kind = "running"
               THEN pc' = r.next /\ cmds' = cs /\ UNCHANGED <<result, hist>>
               ELSE Finish(r.res, cs)
    /\ UNCHANGED <<params, pyver, sys, this_vg, lv_size>>

\* run_command of a mutating command and the report that follows it.  Under
\* check_mode the command line starts with "echo " and nothing is changed.
RunCommand(bin, done, failed) ==
    /\ pc = bin
    /\ LET c == CmdLine(bin)
       IN \E code \in {0, 1} :
            /\ code = 0 => (params.check_mode \/ CanSucceed(sys, c))
            /\ rc' = code
            /\ sys' = IF code = 0 /\ ~params.check_mode THEN Apply(sys, c) ELSE sys
            /\ Finish(Report(code, done, failed), Append(cmds, c))
    /\ UNCHANGED <<params, pyver, this_vg, lv_size, this_lv, lv_info, trusted>>

\* Lines 304-311.
Mklv == RunCommand("mklv", "Logical volume created.", "Creating logical volume failed.")

\* Lines 315-320.
Rmlv == RunCommand("rmlv", "Logical volume deleted.", "Failed to remove logical volume.")

\* Lines 324-329.  Chlv_noexit: the report of a successful chlv does not end the pass.
Chlv_noexit ==
    /\ pc = "chlv"
    /\ LET c == CmdLine("chlv")
       IN \E code \in {0, 1} :
            /\ code = 0 => (params.check_mode \/ CanSucceed(sys, c))
            /\ rc' = code
            /\ sys' = IF code = 0 /\ ~params.check_mode THEN Apply(sys, c) ELSE sys
            /\ IF code = 0 /\ ~NotSize(params.size) /\ lv_size > this_lv.size
               THEN pc' = "extendlv" /\ cmds' = Append(cmds, c) /\ UNCHANGED <<result, hist>>
               ELSE Finish(Report(code, "Logical volume policy changed.",
                                  "Failed to change logical volume policy."), Append(cmds, c))
    /\ UNCHANGED <<params, pyver, this_vg, lv_size, this_lv, lv_info, trusted>>

Chlv == RunCommand("chlv", "Logical volume policy changed.",
                   "Failed to change logical volume policy.")

\* Lines 340-346.
Extendlv == RunCommand("extendlv", "Logical volume size extended.", "Unable to resize.")

\* The module is run again with the same parameters.
NextPass ==
    /\ pc = "done"
    /\ result.kind = "exit"
    /\ trusted
    /\ Len(hist) < MaxPasses
    /\ pc' = "lsvg"
    /\ this_vg' = NoVg
    /\ lv_size' = Unbound
    /\ this_lv' = NoLv
    /\ rc' = Unbound
    /\ lv_info' = <<>>
    /\ cmds' = <<>>
    /\ result' = Running
    /\ UNCHANGED <<params, pyver, sys, hist, trusted>>

Next == Lsvg \/ Lslv \/ Mklv \/ Rmlv \/ Chlv \/ Extendlv \/ NextPass

Spec == Init /\ [][Next]_vars

(***************************************************************************)
(* round_ppsize on its own: every size 0..MaxMB "M" against every          *)
(* partition size 1..MaxPP, under both interpreters; lsvg answers and      *)
(* main normalises the size (line 280).                                    *)
(***************************************************************************)
InitRound ==
    /\ params \in [vg : {"vg1"}, size : { SizeStr(n, "M") : n \in 0..MaxMB },
                   policy : {"maximum"}, state : {"present"}, shrink : {TRUE},
                   check_mode : {FALSE}]
    /\ pyver \in {2, 3}
    /\ sys \in { [name |-> "vg1", vg_exists |-> TRUE, pp_size |-> g, total |-> g * MaxFreePPs,
                  free |-> g * MaxFreePPs] @@ NoVolume : g \in 1..MaxPP }
    /\ pc = "lsvg"
    /\ this_vg = NoVg
    /\ lv_size = Unbound
    /\ this_lv = NoLv
    /\ rc = Unbound
    /\ lv_info = <<>>
    /\ cmds = <<>>
    /\ result = Running
    /\ hist = <<>>
    /\ trusted = TRUE

NextRound == Lsvg

SpecRound == InitRound /\ [][NextRound]_vars

(***************************************************************************)
(* Properties.                                                             *)
(***************************************************************************)
Bins == [i \in 1..Len(cmds) |-> cmds[i].bin]

Issued == { i \in 1..Len(cmds) : cmds[i].bin \in Mutating }

Done == pc = "done"

\* The pass saw the volume (parse_lv returned a dict) and state is present.
SawVolume == this_lv.kind = "dict" /\ params.state = "present"

\* C1: in a pass at most one of mklv, rmlv, chlv, extendlv is run, and
\* every other command run is lsvg or lslv.
C1_AtMostOneMutating ==
    /\ Cardinality(Issued) <= 1
    /\ \A i \in 1..Len(cmds) : cmds[i].bin \in Mutating \cup {"lsvg", "lslv"}

C1_Witness == Done /\ Cardinality(Issued) = 1 /\ Len(cmds) = 3

\* The case of C2: the volume exists, state is present, policy and group
\* match, and the normalised size is below the current size.
SmallerCase ==
    /\ Done /\ SawVolume
    /\ this_lv.policy = params.policy /\ this_lv.vg = params.vg
    /\ ~NotSize(params.size) /\ lv_size < this_lv.size

ShrinkError == Fail("No shrinking of Logical Volume permitted.")

C3_PolicyChangeOnly ==
    (SawVolume /\ this_lv.policy # params.policy) =>
        \/ pc = "chlv" /\ Bins = <<"lsvg", "lslv">>
        \/ /\ Done
           /\ Bins = <<"lsvg", "lslv", "chlv">>
           /\ result \in { Exit(TRUE, "Logical volume policy changed."),
                           Fail("Failed to change logical volume policy.") }

C3_Witness ==
    /\ Done /\ SawVolume /\ this_lv.policy # params.policy
    /\ this_lv.vg # params.vg
    /\ lv_size # Unbound /\ lv_size > this_lv.size
    /\ result.kind = "exit"

GroupError == Fail("Logical volume already exist in volume group")

\* C4 as stated: when the volume exists, state is present and the volume's
\* group is not the requested one, the pass ends with the group error and
\* runs no mutating command, whatever the current policy.
C4_Original ==
    (Done /\ SawVolume /\ this_lv.vg # params.vg) =>
        (result = GroupError /\ Issued = {})

\* C4 amended: when the volume exists, state is present, the current policy
\* is the desired one and the volume's group is not the requested one, the
\* pass ends with the group error and runs no mutating command, whatever
\* size is requested.
C4_GroupMismatchFails ==
    (Done /\ SawVolume /\ this_lv.vg # params.vg /\ this_lv.policy = params.policy) =>
        (result = GroupError /\ Issued = {})

C4_Witness ==
    /\ Done /\ SawVolume /\ this_lv.vg # params.vg /\ this_lv.policy = params.policy
    /\ lv_size # Unbound /\ lv_size > this_lv.size
    /\ result = GroupError

\* lslv was run, its output names no volume, and state is absent.
AbsentCase ==
    /\ Done /\ "lslv" \in { cmds[i].bin : i \in 1..Len(cmds) }
    /\ parse_lv(lv_info).kind = "None"
    /\ params.state = "absent"

\* C5: when lslv's output names no volume and state is absent, the pass
\* reports success with changed=false and the message that the volume does
\* not exist, and runs no mutating command, whatever lslv's exit code.
C5_AbsentNoOp ==
    AbsentCase =>
        (result = Exit(FALSE, "Logical Volume does not exist.") /\ Issued = {})

\* The volume is absent, state is present and a size is given.
CreateCase == this_lv.kind = "None" /\ params.state = "present" /\ ~NotSize(params.size)

\* C6: in that case, when the normalised size exceeds the group's free
\* space the pass fails with the free-space error and runs no mklv;
\* otherwise it runs exactly one mklv, with the normalised size, and reports
\* changed=true "created" on exit code 0 and failure otherwise.  No mklv is
\* ever run with a size above the group's free space.
C6_CreateWithinFreeSpace ==
    /\ (Done /\ CreateCase) =>
          IF lv_size > this_vg.free
          THEN /\ result = Fail("Not enough free space in volume group")
               /\ Bins = <<"lsvg", "lslv">>
          ELSE /\ Bins = <<"lsvg", "lslv", "mklv">>
               /\ cmds[3].mb = lv_size
               /\ lv_size = round_ppsize(convert_size(params.size).value, this_vg.pp_size, pyver)
               /\ result = IF rc = 0 THEN Exit(TRUE, "Logical volume created.")
                           ELSE Fail("Creating logical volume failed.")
    /\ \A i \in 1..Len(cmds) : cmds[i].bin = "mklv" => cmds[i].mb <= this_vg.free

C6_Witness ==
    /\ Done /\ CreateCase /\ Bins = <<"lsvg", "lslv", "mklv">> /\ rc = 0
    /\ cmds[3].mb = this_vg.free

\* The volume is absent, state is present and no size is requested.
NoSizeCase == Done /\ this_lv.kind = "None" /\ params.state = "present" /\ ~params.size.text

\* C7 as stated: in that case the pass fails with "No size given." and no
\* command has been run in the pass.
C7_Original == NoSizeCase => (result = Fail("No size given.") /\ cmds = <<>>)

\* C7 amended: in that case the pass fails with "No size given." before any
\* mutating command: the two queries lsvg and lslv are the only commands run.
C7_NoSizeFailsAfterQueries ==
    NoSizeCase => (result = Fail("No size given.") /\ Bins = <<"lsvg", "lslv">>)

C7_Witness == NoSizeCase /\ result = Fail("No size given.") /\ rc # 0

\* C8: the normalised size is a multiple of the partition size and is not
\* below the requested size.
C8_RoundsUp ==
    lv_size # Unbound =>
        /\ lv_size % this_vg.pp_size = 0
        /\ lv_size >= convert_size(params.size).value

C8_Witness ==
    /\ lv_size # Unbound /\ pyver = 3
    /\ 2 * (convert_size(params.size).value % this_vg.pp_size) = this_vg.pp_size
    /\ lv_size > convert_size(params.size).value

\* C9: a finished pass reports success with changed=true exactly when it
\* ran one mutating command and that command exited 0; it reports success
\* with changed=false only when it ran none; and when the mutating command
\* exited non-zero it reports failure.
C9_ReportMatches ==
    Done =>
        /\ (result.kind = "exit" /\ result.changed) <=> (Cardinality(Issued) = 1 /\ rc = 0)
        /\ (result.kind = "exit" /\ ~result.changed) => Issued = {}
        /\ (Issued # {} /\ rc # 0) => result.kind = "fail"

C9_Witness == Done /\ Cardinality(Issued) = 1 /\ rc = 0 /\ result.changed

Changed == { i \in 1..Len(hist) : hist[i].changed }

MutatingOf(h) == { h.bins[i] : i \in 1..Len(h.bins) } \cap Mutating

\* C10: passes run one after another with the same parameters, every
\* query answering what the volume manager holds, every command succeeding
\* and taking effect, no pass failing: at most two passes report
\* changed=true, two only as chlv followed by extendlv, and once a pass
\* reports changed=false every later pass does too and runs no mutating command.
C10_Converges ==
    (trusted /\ ~params.check_mode /\ \A i \in 1..Len(hist) : hist[i].kind = "exit") =>
        /\ Cardinality(Changed) <= 2
        /\ Cardinality(Changed) = 2 =>
              /\ MutatingOf(hist[1]) = {"chlv"}
              /\ MutatingOf(hist[2]) = {"extendlv"}
        /\ \A i, j \in 1..Len(hist) : (i < j /\ ~hist[i].changed) => ~hist[j].changed
        /\ \A i \in 1..Len(hist) : ~hist[i].changed => MutatingOf(hist[i]) = {}

C10_Witness ==
    /\ trusted /\ ~params.check_mode /\ Len(hist) = 3
    /\ \A i \in 1..3 : hist[i].kind = "exit"
    /\ hist[1].changed /\ hist[2].changed /\ ~hist[3].changed

====
